---- MODULE Spec2Model ----
(***************************************************************************)
(* State-machine model of the Storybook client component                   *)
(* (src/app/page.tsx, function Home): the story state, the saved stories,  *)
(* the re-roll operations and the narrated-video export (downloadVideo)    *)
(* with its FFmpeg engine.                                                 *)
(*                                                                         *)
(* Conventions.  Page indices are 0-based as in the source; TLA+ sequences *)
(* are 1-based, so page i of the source is pages[i + 1].  Durations are    *)
(* counted in ticks of half a second (TicksPerSecond), which are exact in  *)
(* the source's double arithmetic.  A React state value read by an async   *)
(* handler is the value captured by the closure when the handler was       *)
(* started; the DOM read through bookRef is the live one.                  *)
(***************************************************************************)
EXTENDS Integers, Sequences, FiniteSets, TLC

VARIABLES
    prompt,         \* useState prompt
    story,          \* useState story (NoStory is null)
    busy,           \* useState busy
    error,          \* useState error ("null" or a message)
    savedStories,   \* useState savedStories: title -> story
    localStorage,   \* the persisted "storybook_saved" entry (JSON text or none)
    holdTime,       \* useState holdTime, in ticks
    fadeTime,       \* useState fadeTime, in ticks
    gen,            \* generateStory in flight: its position and locals
    rr,             \* rerollImage / rerollText in flight: position and closure
    pdf,            \* downloadPDF in flight: position, closure and document
    pdfSaved,       \* the document the last doc.save call wrote
    nOps,           \* busy operations started so far (bounds the runs of SpecPdf, SpecBusy)
    apiPc,          \* /api/generateStory handler: position in each request
    apiBody,        \* the body of each request
    apiCalls,       \* the upstream calls made for each request, in order
    apiResp,        \* the response to each request
    vPc,            \* downloadVideo: position
    vClo,           \* downloadVideo: closure (story, holdTime, fadeTime)
    audioRes,       \* downloadVideo: narration request of each page
    pagesWithAudio, \* downloadVideo: local pagesWithAudio
    nEls,           \* downloadVideo: pageEls.length
    images,         \* downloadVideo: local images
    wPending,       \* engine: writeFile calls in flight
    fs,             \* engine: the virtual file system, name -> content
    execLog,        \* engine: every exec command issued, with its status
    listFile,       \* downloadVideo: local listFile
    segI,           \* downloadVideo: loop index i of the segment loop
    download,       \* the file offered for download by the last export
    vResult         \* outcome of the current / last export

uiVars == <<prompt, story, busy, error, savedStories, localStorage, holdTime, fadeTime>>
opVars == <<gen, rr, pdf, pdfSaved, nOps>>
vidVars == <<vPc, vClo, audioRes, pagesWithAudio, nEls, images, wPending, fs,
             execLog, listFile, segI, download, vResult>>
srvVars == <<apiPc, apiBody, apiCalls, apiResp>>
vars == <<uiVars, opVars, vidVars, srvVars>>

----------------------------------------------------------------------------
(* Bounds and input sets *)

MaxPages == 2
TicksPerSecond == 2
InitHoldTime == 8
InitFadeTime == 1

Titles == {"A", "B"}
Prompts == {"", "p"}
Texts == {"t0", "t1"}
Urls == {"u0", "u1"}
HoldValues == {0, 2, InitHoldTime}
FadeValues == {InitFadeTime, 2}

NoStory == [null |-> TRUE]

\* A page as the story API and the image API deliver it.
Page(text, url) == [text |-> text, imagePrompt |-> "ip", imageUrl |-> url]

\* A story of n freshly generated pages.
FreshStory(title, p, n) ==
    [title |-> title, prompt |-> p, pages |-> [i \in 1..n |-> Page("t0", "u0")]]

\* The maps a previous session may have left in localStorage.
PersistedMaps ==
    { [t \in {} |-> NoStory],
      [t \in Titles |-> FreshStory(t, "p", IF t = "A" THEN 1 ELSE MaxPages)] }

----------------------------------------------------------------------------
(* JSON text of the saved stories.  An object's text is the sequence of its
   members <<key, value>>; an array's text is the sequence of its elements. *)

\* localStorage.getItem("storybook_saved") === null
NoItem == [item |-> "none"]

Item(text) == [item |-> "json", text |-> text]

\* The order in which the members of the map are written.
TitleOrder == <<"A", "B">>

StringifyPage(p) ==
    << <<"text", p.text>>, <<"imagePrompt", p.imagePrompt>>,
       <<"imageUrl", p.imageUrl>> >>

StringifyStory(s) ==
    << <<"title", s.title>>,
       <<"pages", [i \in DOMAIN s.pages |-> StringifyPage(s.pages[i])]>>,
       <<"prompt", s.prompt>> >>

\* JSON.stringify(updated)
Stringify(m) ==
    LET InMap(t) == t \in DOMAIN m
        keys == SelectSeq(TitleOrder, InMap)
    IN  [k \in 1..Len(keys) |-> <<keys[k], StringifyStory(m[keys[k]])>>]

Keys(j) == {j[k][1] : k \in DOMAIN j}

\* The value of member key of an object text: the last one if it is repeated.
Member(j, key) ==
    j[CHOOSE k \in DOMAIN j :
        /\ j[k][1] = key
        /\ \A l \in DOMAIN j : j[l][1] = key => l <= k][2]

ParsePage(j) == [f \in Keys(j) |-> Member(j, f)]

ParseStory(j) ==
    [f \in Keys(j) |->
        IF f = "pages"
        THEN [i \in DOMAIN Member(j, f) |-> ParsePage(Member(j, f)[i])]
        ELSE Member(j, f)]

\* JSON.parse(raw)
Parse(j) == [t \in Keys(j) |-> ParseStory(Member(j, t))]

\* The entries a previous session may have left in localStorage.
PersistedItems == {NoItem} \cup {Item(Stringify(m)) : m \in PersistedMaps}

\* useEffect on mount: if (raw) setSavedStories(JSON.parse(raw))
MountedStories(item) ==
    IF item = NoItem THEN [t \in {} |-> NoStory] ELSE Parse(item.text)

----------------------------------------------------------------------------
(* Story state: save, load, inputs *)

\* A map update that keeps only the new entry.
WithSavedAlone(m, s) == [t \in {s.title} |-> s]

\* { ...savedStories, [story.title]: story }
WithSaved(m, s) ==
    [t \in DOMAIN m \cup {s.title} |-> IF t = s.title THEN s ELSE m[t]]

setPrompt(p) ==
    /\ ~busy
    /\ prompt' = p
    /\ UNCHANGED <<story, busy, error, savedStories, localStorage, holdTime, fadeTime>>
    /\ UNCHANGED <<opVars, vidVars, srvVars>>

\* localStorage.setItem either stores the text, and then the state is set,
\* or throws (quota exceeded), and then the handler ends without an effect.
saveStory ==
    /\ story # NoStory
    /\ LET updated == WithSaved(savedStories, story) IN
        \/ /\ localStorage' = Item(Stringify(updated))
           /\ savedStories' = updated
        \/ UNCHANGED <<savedStories, localStorage>>
    /\ UNCHANGED <<prompt, story, busy, error, holdTime, fadeTime>>
    /\ UNCHANGED <<opVars, vidVars, srvVars>>

loadStory(title) ==
    /\ story' = IF title \in DOMAIN savedStories THEN savedStories[title] ELSE story
    /\ UNCHANGED <<prompt, busy, error, savedStories, localStorage, holdTime, fadeTime>>
    /\ UNCHANGED <<opVars, vidVars, srvVars>>

setHoldTime(h) ==
    /\ story # NoStory
    /\ holdTime' = h
    /\ UNCHANGED <<prompt, story, busy, error, savedStories, localStorage, fadeTime>>
    /\ UNCHANGED <<opVars, vidVars, srvVars>>

setFadeTime(f) ==
    /\ story # NoStory
    /\ fadeTime' = f
    /\ UNCHANGED <<prompt, story, busy, error, savedStories, localStorage, holdTime>>
    /\ UNCHANGED <<opVars, vidVars, srvVars>>

----------------------------------------------------------------------------
(* generateStory *)

GenIdle == [pc |-> "idle"]

generateStory ==
    /\ ~busy
    /\ prompt # ""
    /\ gen.pc = "idle"
    /\ busy' = TRUE
    /\ error' = "null"
    /\ story' = NoStory
    /\ gen' = [pc |-> "story", prompt |-> prompt]
    /\ UNCHANGED <<prompt, savedStories, localStorage, holdTime, fadeTime, rr, pdf, pdfSaved>>
    /\ UNCHANGED <<vidVars, srvVars>>

\* The /api/generateStory response arrives; the image requests are sent.
generateStoryResponse ==
    /\ gen.pc = "story"
    /\ \/ \E t \in Titles, n \in 1..MaxPages :
            /\ gen' = [pc |-> "images", prompt |-> gen.prompt,
                       data |-> FreshStory(t, gen.prompt, n)]
            /\ UNCHANGED <<busy, error>>
       \/ /\ gen' = GenIdle
          /\ error' = "err"
          /\ busy' = FALSE
    /\ UNCHANGED <<prompt, story, savedStories, localStorage, holdTime, fadeTime, rr, pdf, pdfSaved>>
    /\ UNCHANGED <<nOps, vidVars, srvVars>>

\* Promise.all over the image requests settles.
generateStoryImages ==
    /\ gen.pc = "images"
    /\ \/ /\ story' = gen.data
          /\ UNCHANGED error
       \/ /\ error' = "err"
          /\ UNCHANGED story
    /\ gen' = GenIdle
    /\ busy' = FALSE
    /\ UNCHANGED <<prompt, savedStories, localStorage, holdTime, fadeTime, rr, pdf, pdfSaved>>
    /\ UNCHANGED <<nOps, vidVars, srvVars>>

----------------------------------------------------------------------------
(* rerollImage, rerollText *)

RrIdle == [pc |-> "idle"]

\* story.pages.map((p, i) => i === idx ? { ...p, imageUrl: url } : p)
WithImageUrl(s, idx, url) ==
    [s EXCEPT !.pages = [i \in DOMAIN s.pages |->
        IF i = idx + 1 THEN [s.pages[i] EXCEPT !.imageUrl = url] ELSE s.pages[i]]]

\* story.pages.map((p, i) => i === idx ? { ...p, text: newText } : p)
WithText(s, idx, newText) ==
    [s EXCEPT !.pages = [i \in DOMAIN s.pages |->
        IF i = idx + 1 THEN [s.pages[i] EXCEPT !.text = newText] ELSE s.pages[i]]]

rerollStart(kind, idx) ==
    /\ ~busy
    /\ story # NoStory
    /\ idx + 1 \in DOMAIN story.pages
    /\ rr.pc = "idle"
    /\ busy' = TRUE
    /\ rr' = [pc |-> "wait", kind |-> kind, idx |-> idx, story |-> story]
    /\ UNCHANGED <<prompt, story, error, savedStories, localStorage, holdTime, fadeTime, gen,
                   pdf, pdfSaved>>
    /\ UNCHANGED <<vidVars, srvVars>>

rerollImage(idx) == rerollStart("image", idx)

rerollText(idx) == rerollStart("text", idx)

\* The response arrives: the page is replaced in the story of the closure.
rerollImageResponse ==
    /\ rr.pc = "wait"
    /\ rr.kind = "image"
    /\ \/ \E url \in Urls : story' = WithImageUrl(rr.story, rr.idx, url)
       \/ UNCHANGED story
    /\ rr' = RrIdle
    /\ busy' = FALSE
    /\ UNCHANGED <<prompt, error, savedStories, localStorage, holdTime, fadeTime, gen,
                   pdf, pdfSaved>>
    /\ UNCHANGED <<nOps, vidVars, srvVars>>

rerollTextResponse ==
    /\ rr.pc = "wait"
    /\ rr.kind = "text"
    /\ \/ \E newText \in Texts : story' = WithText(rr.story, rr.idx, newText)
       \/ UNCHANGED story
    /\ rr' = RrIdle
    /\ busy' = FALSE
    /\ UNCHANGED <<prompt, error, savedStories, localStorage, holdTime, fadeTime, gen,
                   pdf, pdfSaved>>
    /\ UNCHANGED <<nOps, vidVars, srvVars>>

----------------------------------------------------------------------------
(* downloadPDF *)

PdfIdle == [pc |-> "idle"]

NoDocument == [kind |-> "none"]

\* Length of the live DOM's list of .story-page elements.
DomPages == IF story = NoStory THEN 0 ELSE Len(story.pages)

\* The page html2canvas rasterises: page i as the DOM shows it now.
Raster(s, i) ==
    [title |-> s.title, page |-> i, text |-> s.pages[i + 1].text,
     imageUrl |-> s.pages[i + 1].imageUrl]

\* A Download PDF button that is never disabled.
PdfButtonAlwaysEnabled == FALSE

\* <button onClick={downloadPDF} disabled={busy}>
PdfButtonDisabled == busy

\* `${story.title || "storybook"}.pdf`
PdfName(title) == IF title = "" THEN "storybook" ELSE title

\* The click on Download PDF up to the first html2canvas call.
downloadPDF ==
    /\ ~PdfButtonDisabled
    /\ story # NoStory
    /\ pdf.pc = "idle"
    /\ busy' = TRUE
    /\ pdf' = [pc |-> "raster", story |-> story, n |-> DomPages, doc |-> << >>]
    /\ UNCHANGED <<prompt, story, error, savedStories, localStorage, holdTime, fadeTime>>
    /\ UNCHANGED <<gen, rr, pdfSaved>>
    /\ UNCHANGED <<vidVars, srvVars>>

\* html2canvas resolves for the next page element, which is added to the
\* document; after the last one the document is saved and busy cleared.
downloadPDFRaster ==
    /\ pdf.pc = "raster"
    /\ Len(pdf.doc) < pdf.n
    /\ Len(pdf.doc) < DomPages
    /\ LET doc == Append(pdf.doc, Raster(story, Len(pdf.doc))) IN
        IF Len(doc) = pdf.n
        THEN /\ pdfSaved' = [kind |-> "pdf", name |-> PdfName(pdf.story.title),
                             pages |-> doc]
             /\ pdf' = PdfIdle
             /\ busy' = FALSE
        ELSE /\ pdf' = [pdf EXCEPT !.doc = doc]
             /\ UNCHANGED <<pdfSaved, busy>>
    /\ UNCHANGED <<prompt, story, error, savedStories, localStorage, holdTime, fadeTime>>
    /\ UNCHANGED <<gen, rr>>
    /\ UNCHANGED <<nOps, vidVars, srvVars>>

\* html2canvas rejects: catch (alert) and finally.
downloadPDFThrow ==
    /\ pdf.pc = "raster"
    /\ pdf' = PdfIdle
    /\ busy' = FALSE
    /\ UNCHANGED <<prompt, story, error, savedStories, localStorage, holdTime, fadeTime>>
    /\ UNCHANGED <<gen, rr, pdfSaved>>
    /\ UNCHANGED <<nOps, vidVars, srvVars>>

----------------------------------------------------------------------------
(* downloadVideo: names and contents of the buffers *)

ImageName(i) == <<"page", i>>
AudioName(i) == <<"audio", i>>
SegName(i) == <<"seg", i>>
WhooshName == <<"whoosh", 0>>
ListName == <<"list", 0>>
OutputName == <<"output", 0>>

Pending == [kind |-> "pending"]

\* The narration blob /api/generateAudio returns for a text.
Narration(text, empty) == [kind |-> "mp3", text |-> text, empty |-> empty]

\* The PNG html2canvas renders of page i of the story s shown in the DOM.
Png(s, i, empty) ==
    [kind |-> "png", title |-> s.title, page |-> i, text |-> s.pages[i + 1].text,
     imageUrl |-> s.pages[i + 1].imageUrl, empty |-> empty]

Whoosh == [kind |-> "whoosh", empty |-> FALSE]

EmptyFs == [n \in {} |-> Pending]

Put(f, name, content) ==
    [n \in DOMAIN f \cup {name} |-> IF n = name THEN content ELSE f[n]]

\* listFile entries and the text written to list.txt
Header == [kind |-> "header"]
NL == [kind |-> "nl"]

\* `file ${outName}`
FileLine(i) == [kind |-> "file", name |-> SegName(i)]

RECURSIVE JoinBlank(_)
\* A join that puts an empty line between neighbours.
JoinBlank(lines) ==
    IF lines = << >> THEN << >>
    ELSE IF Len(lines) = 1 THEN <<lines[1]>>
    ELSE <<lines[1], NL, NL>> \o JoinBlank(Tail(lines))

RECURSIVE Join(_)
\* listFile.join("\n"): the lines with one newline between neighbours
Join(lines) ==
    IF lines = << >> THEN << >>
    ELSE IF Len(lines) = 1 THEN <<lines[1]>>
    ELSE <<lines[1], NL>> \o Join(Tail(lines))

\* Durations of the filter graph, from the timing of the closure.
FadeStart(h, f) == h - f

\* A delay that forgets the fade: holdTime * 1000.
AdelayMsNoFade(h, f) == (h * 1000) \div TicksPerSecond

\* (holdTime - fadeTime) * 1000, in milliseconds
AdelayMs(h, f) == ((h - f) * 1000) \div TicksPerSecond

\* The argument list of the segment command of page i.
SegCommand(i) ==
    [kind |-> "seg", page |-> i,
     inputs |-> <<images[i + 1].name, AudioName(i), WhooshName>>,
     fadeSt |-> FadeStart(vClo.holdTime, vClo.fadeTime),
     fadeD |-> vClo.fadeTime,
     adelay |-> AdelayMs(vClo.holdTime, vClo.fadeTime),
     out |-> SegName(i), status |-> "running"]

ConcatCommand ==
    [kind |-> "concat", inputs |-> <<ListName>>, out |-> OutputName,
     status |-> "running"]

\* What a writeFile call in flight stages under a name.
StagedContent(name) ==
    CASE name[1] = "page" -> images[name[2] + 1].blob
      [] name[1] = "audio" -> pagesWithAudio[name[2] + 1].audio
      [] name[1] = "whoosh" -> Whoosh
      [] OTHER -> [kind |-> "text", text |-> Join(listFile)]

----------------------------------------------------------------------------
(* The FFmpeg engine (an external collaborator): a command can end with    *)
(* status 0 only when its inputs are staged and not empty; it can always   *)
(* end with a non-zero status (exec resolves with it) or reject.  A        *)
(* command that does not end with status 0 leaves no output file.          *)

IsFileLine(l) == l.kind = "file"

\* The segment names a manifest text lists, in order.
FileEntries(text) ==
    LET ls == SelectSeq(text, IsFileLine) IN [k \in DOMAIN ls |-> ls[k].name]

InputsReady(cmd) ==
    /\ \A k \in DOMAIN cmd.inputs : cmd.inputs[k] \in DOMAIN fs
    /\ cmd.kind = "seg" => \A k \in DOMAIN cmd.inputs : ~fs[cmd.inputs[k]].empty
    /\ cmd.kind = "concat" =>
          \A k \in DOMAIN FileEntries(fs[ListName].text) :
              FileEntries(fs[ListName].text)[k] \in DOMAIN fs

ExecOutput(cmd) ==
    IF cmd.kind = "seg"
    THEN [kind |-> "mp4", page |-> cmd.page, image |-> fs[cmd.inputs[1]],
          audio |-> fs[cmd.inputs[2]], empty |-> FALSE]
    ELSE [kind |-> "mp4cat",
          parts |-> [k \in DOMAIN FileEntries(fs[ListName].text) |->
                        fs[FileEntries(fs[ListName].text)[k]]],
          empty |-> FALSE]

ExecOutcomes(cmd) ==
    {"nonzero", "thrown"} \cup (IF InputsReady(cmd) THEN {"ok"} ELSE {})

----------------------------------------------------------------------------
(* downloadVideo *)

NoDownload == [kind |-> "none"]

\* A failure path that ends the export without clearing busy.
AbortLeavesBusy ==
    /\ vPc' = "idle"
    /\ vResult' = "failed"
    /\ UNCHANGED busy

\* catch: alert(...); finally: setBusy(false)
Abort ==
    /\ vPc' = "idle"
    /\ vResult' = "failed"
    /\ busy' = FALSE

\* story.title || "storybook"
DownloadName(title) == IF title = "" THEN "storybook" ELSE title

downloadVideo ==
    /\ ~busy
    /\ story # NoStory
    /\ vPc = "idle"
    /\ busy' = TRUE
    /\ vClo' = [story |-> story, holdTime |-> holdTime, fadeTime |-> fadeTime]
    /\ audioRes' = [i \in 0..(Len(story.pages) - 1) |-> Pending]
    /\ vPc' = "audio"
    /\ pagesWithAudio' = << >>
    /\ nEls' = 0
    /\ images' = << >>
    /\ wPending' = {}
    /\ fs' = EmptyFs
    /\ execLog' = << >>
    /\ listFile' = << >>
    /\ segI' = 0
    /\ download' = NoDownload
    /\ vResult' = "running"
    /\ UNCHANGED <<prompt, story, error, savedStories, localStorage, holdTime, fadeTime>>
    /\ UNCHANGED <<gen, rr, pdf, pdfSaved, srvVars>>

\* The narration request of page i resolves with a blob.  With the last one
\* Promise.all resolves and the page elements are read from the DOM.
downloadVideoAudio(i) ==
    /\ vPc = "audio"
    /\ i \in DOMAIN audioRes
    /\ audioRes[i] = Pending
    /\ \E empty \in BOOLEAN :
        LET res == [audioRes EXCEPT
                       ![i] = Narration(vClo.story.pages[i + 1].text, empty)] IN
        /\ audioRes' = res
        /\ IF \A j \in DOMAIN res : res[j] # Pending
           THEN /\ pagesWithAudio' =
                       [j \in 1..Len(vClo.story.pages) |->
                           [page |-> vClo.story.pages[j], audio |-> res[j - 1]]]
                /\ nEls' = DomPages
                /\ vPc' = "capture"
           ELSE UNCHANGED <<pagesWithAudio, nEls, vPc>>
    /\ UNCHANGED <<vClo, images, wPending, fs, execLog, listFile, segI, download, vResult>>
    /\ UNCHANGED <<uiVars, opVars, srvVars>>

\* html2canvas renders the next page element as the DOM shows it now; an
\* element that has left the DOM cannot be rendered.
downloadVideoCapture ==
    /\ vPc = "capture"
    /\ Len(images) < DomPages
    /\ \E empty \in BOOLEAN :
        images' = Append(images,
                     [name |-> ImageName(Len(images)),
                      blob |-> Png(story, Len(images), empty)])
    /\ vPc' = IF Len(images) + 1 = nEls THEN "load" ELSE "capture"
    /\ UNCHANGED <<vClo, audioRes, pagesWithAudio, nEls, wPending, fs, execLog,
                   listFile, segI, download, vResult>>
    /\ UNCHANGED <<uiVars, opVars, srvVars>>

\* ffmpeg.load resolves; the image writes are issued together.
downloadVideoLoad ==
    /\ vPc = "load"
    /\ vPc' = "writeImages"
    /\ wPending' = {images[k].name : k \in DOMAIN images}
    /\ UNCHANGED <<vClo, audioRes, pagesWithAudio, nEls, images, fs, execLog,
                   listFile, segI, download, vResult>>
    /\ UNCHANGED <<uiVars, opVars, srvVars>>

\* A stage that goes on without waiting for its writes.
WritesNotJoined(pending) == TRUE

\* await Promise.all(...): the writes of a stage have all settled.
WritesJoined(pending) == pending = {}

AudioNames == {AudioName(k - 1) : k \in DOMAIN pagesWithAudio}

\* A writeFile call completes; the handler resumes when it awaited it.
engineWriteDone(name) ==
    /\ vPc # "idle"
    /\ name \in wPending
    /\ fs' = Put(fs, name, StagedContent(name))
    /\ LET rest == wPending \ {name} IN
        CASE vPc = "writeImages" /\ WritesJoined(rest) ->
                /\ vPc' = "writeAudio"
                /\ wPending' = rest \cup AudioNames
                /\ UNCHANGED <<listFile, segI>>
          [] vPc = "writeAudio" /\ WritesJoined(rest) ->
                /\ vPc' = "whooshFetch"
                /\ wPending' = rest
                /\ UNCHANGED <<listFile, segI>>
          [] vPc = "whooshWrite" /\ name = WhooshName ->
                /\ vPc' = "segIssue"
                /\ wPending' = rest
                /\ listFile' = <<Header>>
                /\ segI' = 0
          [] vPc = "listWrite" /\ name = ListName ->
                /\ vPc' = "concatIssue"
                /\ wPending' = rest
                /\ UNCHANGED <<listFile, segI>>
          [] OTHER ->
                /\ wPending' = rest
                /\ UNCHANGED <<vPc, listFile, segI>>
    /\ UNCHANGED <<vClo, audioRes, pagesWithAudio, nEls, images, execLog, download, vResult>>
    /\ UNCHANGED <<uiVars, opVars, srvVars>>

\* The whoosh effect is fetched and its write issued.
downloadVideoWhoosh ==
    /\ vPc = "whooshFetch"
    /\ vPc' = "whooshWrite"
    /\ wPending' = wPending \cup {WhooshName}
    /\ UNCHANGED <<vClo, audioRes, pagesWithAudio, nEls, images, fs, execLog,
                   listFile, segI, download, vResult>>
    /\ UNCHANGED <<uiVars, opVars, srvVars>>

\* A loop that stops one page early.
SegLoopStopsEarly(i, n) == i < n - 1

\* for (let i = 0; i < pagesWithAudio.length; i++)
SegLoopContinues(i, n) == i < n

\* An exec call that is not awaited: the loop goes on at once.
AfterExecIssueNoAwait(lf, i) ==
    [vPc |-> "segIssue", listFile |-> Append(lf, FileLine(i)), segI |-> i + 1]

\* await ffmpeg.exec([...]): the handler waits for the command it issued.
AfterExecIssue(lf, i) == [vPc |-> "segWait", listFile |-> lf, segI |-> i]

\* The loop body up to the exec call of page segI.
downloadVideoSegExec ==
    /\ vPc = "segIssue"
    /\ SegLoopContinues(segI, Len(pagesWithAudio))
    /\ segI + 1 \in DOMAIN images
    /\ execLog' = Append(execLog, SegCommand(segI))
    /\ LET nxt == AfterExecIssue(listFile, segI) IN
        /\ vPc' = nxt.vPc
        /\ listFile' = nxt.listFile
        /\ segI' = nxt.segI
    /\ UNCHANGED <<vClo, audioRes, pagesWithAudio, nEls, images, wPending, fs,
                   download, vResult>>
    /\ UNCHANGED <<uiVars, opVars, srvVars>>

\* images[i] is undefined: images[i].name throws a TypeError.
downloadVideoSegTypeError ==
    /\ vPc = "segIssue"
    /\ SegLoopContinues(segI, Len(pagesWithAudio))
    /\ segI + 1 \notin DOMAIN images
    /\ Abort
    /\ UNCHANGED <<prompt, story, error, savedStories, localStorage, holdTime, fadeTime>>
    /\ UNCHANGED <<vClo, audioRes, pagesWithAudio, nEls, images, wPending, fs,
                   execLog, listFile, segI, download>>
    /\ UNCHANGED <<opVars, srvVars>>

\* The loop is over: the write of list.txt is issued.
downloadVideoListWrite ==
    /\ vPc = "segIssue"
    /\ ~SegLoopContinues(segI, Len(pagesWithAudio))
    /\ vPc' = "listWrite"
    /\ wPending' = wPending \cup {ListName}
    /\ UNCHANGED <<vClo, audioRes, pagesWithAudio, nEls, images, fs, execLog,
                   listFile, segI, download, vResult>>
    /\ UNCHANGED <<uiVars, opVars, srvVars>>

downloadVideoConcatExec ==
    /\ vPc = "concatIssue"
    /\ execLog' = Append(execLog, ConcatCommand)
    /\ vPc' = "concatWait"
    /\ UNCHANGED <<vClo, audioRes, pagesWithAudio, nEls, images, wPending, fs,
                   listFile, segI, download, vResult>>
    /\ UNCHANGED <<uiVars, opVars, srvVars>>

\* What the handler makes of a settled exec call: only a rejection throws;
\* the status the promise resolves with is not looked at.
ExecThrows(outcome) == outcome = "thrown"

\* An exec command completes; the handler resumes when it awaited it.
engineExecDone(k) ==
    /\ vPc # "idle"
    /\ k \in DOMAIN execLog
    /\ execLog[k].status = "running"
    /\ \E outcome \in ExecOutcomes(execLog[k]) :
        /\ execLog' = [execLog EXCEPT ![k].status = outcome]
        /\ fs' = IF outcome = "ok"
                 THEN Put(fs, execLog[k].out, ExecOutput(execLog[k]))
                 ELSE fs
        /\ CASE vPc = "segWait" /\ k = Len(execLog) /\ ExecThrows(outcome) ->
                  /\ Abort
                  /\ UNCHANGED <<listFile, segI>>
             [] vPc = "segWait" /\ k = Len(execLog) /\ ~ExecThrows(outcome) ->
                  /\ listFile' = Append(listFile, FileLine(segI))
                  /\ segI' = segI + 1
                  /\ vPc' = "segIssue"
                  /\ UNCHANGED <<busy, vResult>>
             [] vPc = "concatWait" /\ k = Len(execLog) /\ ExecThrows(outcome) ->
                  /\ Abort
                  /\ UNCHANGED <<listFile, segI>>
             [] vPc = "concatWait" /\ k = Len(execLog) /\ ~ExecThrows(outcome) ->
                  /\ vPc' = "read"
                  /\ UNCHANGED <<busy, vResult, listFile, segI>>
             [] OTHER ->
                  UNCHANGED <<busy, vResult, listFile, segI, vPc>>
    /\ UNCHANGED <<prompt, story, error, savedStories, localStorage, holdTime, fadeTime>>
    /\ UNCHANGED <<vClo, audioRes, pagesWithAudio, nEls, images, wPending, download>>
    /\ UNCHANGED <<opVars, srvVars>>

\* A read that takes the first segment for the final video.
ReadNameFirstSegment == SegName(0)

\* The file the final video is read from: ffmpeg.readFile("output.mp4")
ReadName == OutputName

\* readFile and the download link; readFile throws when the file does not
\* exist.
downloadVideoRead ==
    /\ vPc = "read"
    /\ IF ReadName \in DOMAIN fs
       THEN /\ download' = [kind |-> "file",
                            name |-> DownloadName(vClo.story.title),
                            data |-> fs[ReadName]]
            /\ vResult' = "ok"
       ELSE /\ vResult' = "failed"
            /\ UNCHANGED download
    /\ vPc' = "idle"
    /\ busy' = FALSE
    /\ UNCHANGED <<prompt, story, error, savedStories, localStorage, holdTime, fadeTime>>
    /\ UNCHANGED <<vClo, audioRes, pagesWithAudio, nEls, images, wPending, fs,
                   execLog, listFile, segI>>
    /\ UNCHANGED <<opVars, srvVars>>

\* An awaited request, render, load or write rejects.
ThrowingStages ==
    {"audio", "capture", "load", "writeImages", "writeAudio", "whooshFetch",
     "whooshWrite", "listWrite"}

downloadVideoThrow ==
    /\ vPc \in ThrowingStages
    /\ Abort
    /\ UNCHANGED <<prompt, story, error, savedStories, localStorage, holdTime, fadeTime>>
    /\ UNCHANGED <<vClo, audioRes, pagesWithAudio, nEls, images, wPending, fs,
                   execLog, listFile, segI, download>>
    /\ UNCHANGED <<opVars, srvVars>>

----------------------------------------------------------------------------
(* POST /api/generateStory, the handler that calls the upstream API by fetch *)

\* Requests the server handles at the same time.
MaxRequests == 2

Requests == 1..MaxRequests

NoRequest == [kind |-> "none"]

NoResponse == [status |-> 0]

\* Request bodies: not JSON, an object without a prompt, an object with one.
Bodies ==
    {[kind |-> "malformed"], [kind |-> "noPrompt"]}
        \cup {[kind |-> "object", prompt |-> p] : p \in Prompts}

\* !prompt
PromptMissing(body) ==
    body.kind = "noPrompt" \/ (body.kind = "object" /\ body.prompt = "")

\* What one callApi can come to.  fetch rejects; the status is not ok and
\* the error carries the response text; the text of an ok response is not
\* JSON and the SyntaxError quotes it; or the text parses to data, whose
\* first choice's content is the JSON text of a story (given by its title),
\* some other text, or absent.
UpstreamResults ==
    {[kind |-> "rejected", mentions |-> FALSE]}
        \cup {[kind |-> k, mentions |-> m] : k \in {"notOk", "badText"}, m \in BOOLEAN}
        \cup {[kind |-> "data", content |-> c] : c \in Titles \cup {"notJson", "none"}}
        \cup {[kind |-> "null"]}

\* callApi threw.
Failed(r) == r.kind \in {"rejected", "notOk", "badText"}

\* A handler that retries after every failure of the first call.
RetryAlways(r) == TRUE

\* String(error?.message || "").includes("response_format")
MentionsResponseFormat(r) == r.mentions

Response(status, body) == [status |-> status, body |-> body]

\* The statements after the calls: content, JSON.parse(content), response.
Finish(data) ==
    IF data.kind = "null" THEN Response(500, "TypeError")
    ELSE IF data.content \in Titles THEN Response(200, data.content)
    ELSE Response(500, "Model did not return valid JSON")

\* Request q arrives: req.json(), the prompt check, the first callApi(true).
POST(q, body) ==
    /\ apiPc[q] = "idle"
    /\ apiBody' = [apiBody EXCEPT ![q] = body]
    /\ IF body.kind = "malformed"
       THEN /\ apiResp' = [apiResp EXCEPT ![q] = Response(500, "unhandled")]
            /\ apiCalls' = [apiCalls EXCEPT ![q] = << >>]
            /\ UNCHANGED apiPc
       ELSE IF PromptMissing(body)
       THEN /\ apiResp' = [apiResp EXCEPT ![q] = Response(400, "Missing prompt")]
            /\ apiCalls' = [apiCalls EXCEPT ![q] = << >>]
            /\ UNCHANGED apiPc
       ELSE /\ apiResp' = [apiResp EXCEPT ![q] = NoResponse]
            /\ apiCalls' = [apiCalls EXCEPT
                               ![q] = << [jsonMode |-> TRUE, result |-> Pending] >>]
            /\ apiPc' = [apiPc EXCEPT ![q] = "first"]
    /\ UNCHANGED <<uiVars, opVars, vidVars>>

\* The first call of request q settles.
upstreamFirst(q) ==
    /\ apiPc[q] = "first"
    /\ \E r \in UpstreamResults :
        LET settled == [apiCalls[q] EXCEPT ![1].result = r] IN
        IF Failed(r)
        THEN IF MentionsResponseFormat(r)
             THEN /\ apiCalls' = [apiCalls EXCEPT ![q] =
                        Append(settled, [jsonMode |-> FALSE, result |-> Pending])]
                  /\ apiPc' = [apiPc EXCEPT ![q] = "second"]
                  /\ UNCHANGED apiResp
             ELSE /\ apiCalls' = [apiCalls EXCEPT ![q] = settled]
                  /\ apiResp' = [apiResp EXCEPT ![q] = Response(500, "error")]
                  /\ apiPc' = [apiPc EXCEPT ![q] = "idle"]
        ELSE /\ apiCalls' = [apiCalls EXCEPT ![q] = settled]
             /\ apiResp' = [apiResp EXCEPT ![q] = Finish(r)]
             /\ apiPc' = [apiPc EXCEPT ![q] = "idle"]
    /\ UNCHANGED apiBody
    /\ UNCHANGED <<uiVars, opVars, vidVars>>

\* The call without response_format of request q settles.
upstreamSecond(q) ==
    /\ apiPc[q] = "second"
    /\ \E r \in UpstreamResults :
        /\ apiCalls' = [apiCalls EXCEPT ![q][2].result = r]
        /\ apiResp' = [apiResp EXCEPT
                          ![q] = IF Failed(r) THEN Response(500, "error") ELSE Finish(r)]
    /\ apiPc' = [apiPc EXCEPT ![q] = "idle"]
    /\ UNCHANGED apiBody
    /\ UNCHANGED <<uiVars, opVars, vidVars>>

----------------------------------------------------------------------------
(* Specification *)

Init ==
    /\ prompt = ""
    /\ story = NoStory
    /\ busy = FALSE
    /\ error = "null"
    /\ localStorage \in PersistedItems
    /\ savedStories = MountedStories(localStorage)
    /\ holdTime = InitHoldTime
    /\ fadeTime = InitFadeTime
    /\ gen = GenIdle
    /\ rr = RrIdle
    /\ pdf = PdfIdle
    /\ pdfSaved = NoDocument
    /\ nOps = 0
    /\ apiPc = [q \in Requests |-> "idle"]
    /\ apiBody = [q \in Requests |-> NoRequest]
    /\ apiCalls = [q \in Requests |-> << >>]
    /\ apiResp = [q \in Requests |-> NoResponse]
    /\ vPc = "idle"
    /\ vClo = [story |-> NoStory, holdTime |-> InitHoldTime, fadeTime |-> InitFadeTime]
    /\ audioRes = << >>
    /\ pagesWithAudio = << >>
    /\ nEls = 0
    /\ images = << >>
    /\ wPending = {}
    /\ fs = EmptyFs
    /\ execLog = << >>
    /\ listFile = << >>
    /\ segI = 0
    /\ download = NoDownload
    /\ vResult = "none"

\* The export pipeline with everything the page leaves enabled while an
\* export is busy (the load selector, Save Story, the timing inputs).  The
\* story comes from the saved stories; generateStory and the re-rolls are
\* disabled while busy and are exercised by SpecStory.
Next ==
    \/ saveStory
    \/ \E t \in Titles : loadStory(t)
    \/ \E h \in HoldValues : setHoldTime(h)
    \/ \E f \in FadeValues : setFadeTime(f)
    \/ downloadVideo /\ UNCHANGED nOps
    \/ \E i \in 0..(MaxPages - 1) : downloadVideoAudio(i)
    \/ downloadVideoCapture
    \/ downloadVideoLoad
    \/ \E name \in wPending : engineWriteDone(name)
    \/ downloadVideoWhoosh
    \/ downloadVideoSegExec
    \/ downloadVideoSegTypeError
    \/ downloadVideoListWrite
    \/ downloadVideoConcatExec
    \/ \E k \in DOMAIN execLog : engineExecDone(k)
    \/ downloadVideoRead
    \/ downloadVideoThrow

Spec == Init /\ [][Next]_vars

\* The story operations: prompt, generation, re-rolls, save and load.
NextStory ==
    \/ \E p \in Prompts : setPrompt(p)
    \/ saveStory
    \/ \E t \in Titles : loadStory(t)
    \/ generateStory /\ UNCHANGED nOps
    \/ generateStoryResponse
    \/ generateStoryImages
    \/ \E idx \in 0..(MaxPages - 1) : rerollImage(idx) /\ UNCHANGED nOps
    \/ \E idx \in 0..(MaxPages - 1) : rerollText(idx) /\ UNCHANGED nOps
    \/ rerollImageResponse
    \/ rerollTextResponse

SpecStory == Init /\ [][NextStory]_vars

\* Saving and loading, with generation and text re-rolls as the source of
\* new stories.
NextSaved ==
    \/ \E p \in Prompts : setPrompt(p)
    \/ saveStory
    \/ \E t \in Titles : loadStory(t)
    \/ generateStory /\ UNCHANGED nOps
    \/ generateStoryResponse
    \/ generateStoryImages
    \/ \E idx \in 0..(MaxPages - 1) : rerollText(idx) /\ UNCHANGED nOps
    \/ rerollTextResponse

SpecSaved == Init /\ [][NextSaved]_vars

\* The requests to the story endpoint and the answers of the upstream API.
NextApi ==
    \/ \E q \in Requests, body \in Bodies : POST(q, body)
    \/ \E q \in Requests : upstreamFirst(q)
    \/ \E q \in Requests : upstreamSecond(q)

SpecApi == Init /\ [][NextApi]_vars

\* The runs of SpecPdf and SpecBusy start at most MaxOps busy operations.
MaxOps == 2

Counted == nOps < MaxOps /\ nOps' = nOps + 1

\* The PDF export among the story operations.
NextPdf ==
    \/ \E p \in Prompts : setPrompt(p)
    \/ \E t \in Titles : loadStory(t)
    \/ generateStory /\ Counted
    \/ generateStoryResponse
    \/ generateStoryImages
    \/ \E idx \in 0..(MaxPages - 1) : rerollImage(idx) /\ Counted
    \/ \E idx \in 0..(MaxPages - 1) : rerollText(idx) /\ Counted
    \/ rerollImageResponse
    \/ rerollTextResponse
    \/ downloadPDF /\ Counted
    \/ downloadPDFRaster
    \/ downloadPDFThrow

SpecPdf == Init /\ [][NextPdf]_vars

\* The five operations that set busy, with the inputs that stay enabled
\* while busy.
NextBusy ==
    \/ \E p \in Prompts : setPrompt(p)
    \/ \E t \in Titles : loadStory(t)
    \/ generateStory /\ Counted
    \/ generateStoryResponse
    \/ generateStoryImages
    \/ \E idx \in 0..(MaxPages - 1) : rerollImage(idx) /\ Counted
    \/ \E idx \in 0..(MaxPages - 1) : rerollText(idx) /\ Counted
    \/ rerollImageResponse
    \/ rerollTextResponse
    \/ downloadPDF /\ Counted
    \/ downloadPDFRaster
    \/ downloadPDFThrow
    \/ downloadVideo /\ Counted
    \/ \E i \in 0..(MaxPages - 1) : downloadVideoAudio(i)
    \/ downloadVideoCapture
    \/ downloadVideoLoad
    \/ \E name \in wPending : engineWriteDone(name)
    \/ downloadVideoWhoosh
    \/ downloadVideoSegExec
    \/ downloadVideoSegTypeError
    \/ downloadVideoListWrite
    \/ downloadVideoConcatExec
    \/ \E k \in DOMAIN execLog : engineExecDone(k)
    \/ downloadVideoRead
    \/ downloadVideoThrow

SpecBusy == Init /\ [][NextBusy]_vars

\* The steps by which an external call of an operation in flight returns
\* (resolves or rejects) and the handler runs on to its next call or its end.
ExternalCallReturns ==
    \/ generateStoryResponse
    \/ generateStoryImages
    \/ rerollImageResponse
    \/ rerollTextResponse
    \/ downloadPDFRaster
    \/ downloadPDFThrow
    \/ \E i \in 0..(MaxPages - 1) : downloadVideoAudio(i)
    \/ downloadVideoCapture
    \/ downloadVideoLoad
    \/ \E name \in wPending : engineWriteDone(name)
    \/ downloadVideoWhoosh
    \/ downloadVideoSegExec
    \/ downloadVideoSegTypeError
    \/ downloadVideoListWrite
    \/ downloadVideoConcatExec
    \/ \E k \in DOMAIN execLog : engineExecDone(k)
    \/ downloadVideoRead
    \/ downloadVideoThrow

\* SpecBusy for external calls that always return.
SpecBusyFair == SpecBusy /\ WF_vars(ExternalCallReturns)

----------------------------------------------------------------------------
(* Properties of the export (specification Spec) *)

\* Number of pages of the export: the pages of the story of the closure.
ExportPages == IF vClo.story = NoStory THEN 0 ELSE Len(vClo.story.pages)

SegCommands == {k \in DOMAIN execLog : execLog[k].kind = "seg"}

ConcatCommands == {k \in DOMAIN execLog : execLog[k].kind = "concat"}

ExportSucceeded == vPc = "idle" /\ vResult = "ok"

\* C1: once list.txt is written - so in every successful export - its text
\* is the header line followed by one line `file seg<i>` for each produced
\* segment i = 0..N-1, in ascending order, each line ended by exactly one
\* newline except the last (no blank lines, no segment twice or missing).
C1_ManifestListsSegmentsInOrder ==
    ListName \in DOMAIN fs =>
        LET text == fs[ListName].text IN
        /\ Len(text) = 2 * ExportPages + 1
        /\ text[1] = Header
        /\ \A i \in 0..(ExportPages - 1) :
              /\ text[2 * i + 2] = NL
              /\ text[2 * i + 3] = [kind |-> "file", name |-> <<"seg", i>>]
        /\ {execLog[k].out : k \in SegCommands} =
              {<<"seg", i>> : i \in 0..(ExportPages - 1)}

C1_Witness ==
    /\ ExportSucceeded
    /\ ExportPages >= 2
    /\ ListName \in DOMAIN fs

\* C2 (as claimed): a segment command that ended with a non-zero status or
\* by throwing is the last command the engine ever receives in that export,
\* and no video is offered for download.
C2_EncodeFailureAbortsExport ==
    \A k \in SegCommands :
        execLog[k].status \in {"nonzero", "thrown"} =>
            /\ k = Len(execLog)
            /\ download = NoDownload

\* C3: a concatenation command is only ever issued as command N+1, after
\* the segment commands of pages 0..N-1, in that order, have all completed;
\* it is never issued twice; a successful export has issued exactly these
\* N+1 commands.
C3_ConcatAfterAllSegmentsOnce ==
    /\ \A k \in ConcatCommands :
          /\ k = ExportPages + 1
          /\ \A j \in 1..(k - 1) :
                /\ execLog[j].kind = "seg"
                /\ execLog[j].page = j - 1
                /\ execLog[j].status \in {"ok", "nonzero"}
    /\ Cardinality(ConcatCommands) <= 1
    /\ ExportSucceeded =>
          /\ Len(execLog) = ExportPages + 1
          /\ ConcatCommands = {ExportPages + 1}
          /\ \A j \in 1..ExportPages : execLog[j].status # "running"

C3_Witness ==
    /\ ExportSucceeded
    /\ ExportPages >= 2
    /\ Cardinality(SegCommands) = ExportPages
    /\ Cardinality(ConcatCommands) = 1

\* Some page of the export has an empty narration blob or an empty image.
SomeAssetEmpty ==
    \/ \E i \in DOMAIN audioRes : audioRes[i] # Pending /\ audioRes[i].empty
    \/ \E k \in DOMAIN images : images[k].blob.empty

\* C4 (as claimed): when a page has empty narration or image bytes, no
\* engine command is ever invoked and nothing is offered for download.
C4_EmptyAssetFailsBeforeEngine ==
    SomeAssetEmpty => execLog = << >> /\ download = NoDownload

\* C5 (as claimed): with fadeTime >= holdTime or holdTime <= 0 no engine
\* command is invoked, and every segment command has a fade start >= 0.
C5_InvalidTimingFailsBeforeEngine ==
    /\ (vClo.fadeTime >= vClo.holdTime \/ vClo.holdTime <= 0) => execLog = << >>
    /\ \A k \in SegCommands : execLog[k].fadeSt >= 0

C7_FadeAndDelaySynchronized ==
    /\ \A k \in SegCommands :
          /\ execLog[k].fadeSt = vClo.holdTime - vClo.fadeTime
          /\ execLog[k].fadeD = vClo.fadeTime
          /\ execLog[k].adelay * TicksPerSecond =
                1000 * (vClo.holdTime - vClo.fadeTime)
          /\ (vClo.holdTime = 4 * TicksPerSecond /\ 2 * vClo.fadeTime = TicksPerSecond) =>
                /\ 2 * execLog[k].fadeSt = 7 * TicksPerSecond
                /\ execLog[k].adelay = 3500
    /\ \A j, k \in SegCommands :
          /\ execLog[j].fadeSt = execLog[k].fadeSt
          /\ execLog[j].fadeD = execLog[k].fadeD
          /\ execLog[j].adelay = execLog[k].adelay

C7_Witness ==
    /\ Cardinality(SegCommands) >= 2
    /\ vClo.holdTime = 4 * TicksPerSecond
    /\ 2 * vClo.fadeTime = TicksPerSecond
    /\ holdTime # vClo.holdTime
    /\ execLog[2].adelay = 3500

\* C8: at most one engine command is in flight, and every command issued
\* before the latest one has completed (with status 0, non-zero, or thrown).
C8_EngineCommandsSerialized ==
    /\ Cardinality({k \in DOMAIN execLog : execLog[k].status = "running"}) <= 1
    /\ \A k \in DOMAIN execLog :
          k < Len(execLog) => execLog[k].status # "running"

C8_Witness ==
    /\ Len(execLog) >= 2
    /\ execLog[Len(execLog)].status = "running"
    /\ execLog[1].status = "nonzero"

\* C9: whenever the segment command of page i has been issued, the image of
\* page i, the narration of page i and the page-turn effect are in the
\* engine's storage, with the bytes captured for that page, and no write of
\* any of them is still in flight.
C9_SegmentInputsStagedBeforeEncode ==
    \A k \in SegCommands :
        LET i == execLog[k].page IN
        /\ <<"page", i>> \in DOMAIN fs
        /\ <<"audio", i>> \in DOMAIN fs
        /\ <<"whoosh", 0>> \in DOMAIN fs
        /\ fs[<<"page", i>>] = images[i + 1].blob
        /\ fs[<<"audio", i>>] = audioRes[i]
        /\ wPending \cap {<<"page", i>>, <<"audio", i>>, <<"whoosh", 0>>} = {}

C9_Witness ==
    /\ \E k \in SegCommands : execLog[k].page = 1 /\ execLog[k].status = "running"
    /\ <<"page", 1>> \in DOMAIN fs
    /\ <<"audio", 1>> \in DOMAIN fs

\* C14 (as claimed): once the pages are captured there are as many images
\* as narration clips, and every segment command of page i has as inputs
\* the image of page i and the narration of the text of page i of the story
\* that was active when the export started, whatever is loaded meanwhile.
C14_SegmentsFromStartedStory ==
    /\ vPc \notin {"idle", "audio", "capture"} => Len(images) = Len(pagesWithAudio)
    /\ \A k \in SegCommands :
        LET i == execLog[k].page
            image == fs[<<"page", i>>]
            audio == fs[<<"audio", i>>]
            page == vClo.story.pages[i + 1]
        IN
        /\ image.title = vClo.story.title
        /\ image.page = i
        /\ image.text = page.text
        /\ image.imageUrl = page.imageUrl
        /\ audio.text = page.text

----------------------------------------------------------------------------
(* Properties of the story operations (specification SpecStory) *)

\* The story t differs from the story s at most in one field of page idx.
DiffersOnlyInPage(s, t, idx, kind) ==
    /\ s # NoStory
    /\ t # NoStory
    /\ t.title = s.title
    /\ t.prompt = s.prompt
    /\ Len(t.pages) = Len(s.pages)
    /\ \A i \in DOMAIN s.pages :
          IF i = idx + 1
          THEN /\ t.pages[i].imagePrompt = s.pages[i].imagePrompt
               /\ kind = "text" => t.pages[i].imageUrl = s.pages[i].imageUrl
               /\ kind = "image" => t.pages[i].text = s.pages[i].text
          ELSE t.pages[i] = s.pages[i]

\* C10 (as claimed): the step that completes rerollText(idx) or
\* rerollImage(idx) leaves the active story unchanged (failure) or changes,
\* in the story that was active just before the step, only the text
\* (respectively the imageUrl) of page idx.
C10_RerollChangesOnlyItsPage ==
    [][(rr.pc = "wait" /\ rr'.pc = "idle") =>
          \/ story' = story
          \/ DiffersOnlyInPage(story, story', rr.idx, rr.kind)]_vars

----------------------------------------------------------------------------
(* Properties of the PDF export (specification SpecPdf) *)

----------------------------------------------------------------------------
(* Properties of saving and loading (specification SpecSaved) *)

\* A step that changed the saved map or the persisted entry.
SaveStep == savedStories' # savedStories \/ localStorage' # localStorage

\* A step that changed the active story without any operation moving.
LoadStep == story' # story /\ gen' = gen /\ rr' = rr

\* C12: the persisted entry always decodes to the in-memory map.  A save
\* stores the active story under its title in both, replaces the entry of
\* that title and keeps the entries of all other titles, so that loading
\* the title then restores exactly the saved story, also from the persisted
\* text.  A load makes the story saved under an existing title the active
\* story and touches neither map.
C12_SaveLoadRoundTrip ==
    [][/\ MountedStories(localStorage) = savedStories
       /\ MountedStories(localStorage') = savedStories'
       /\ SaveStep =>
            /\ story # NoStory
            /\ story' = story
            /\ DOMAIN savedStories' = DOMAIN savedStories \cup {story.title}
            /\ savedStories'[story.title] = story
            /\ \A t \in DOMAIN savedStories \ {story.title} :
                  savedStories'[t] = savedStories[t]
            /\ localStorage'.item = "json"
            /\ Parse(localStorage'.text)[story.title] = story
       /\ LoadStep =>
            /\ \E t \in DOMAIN savedStories : story' = savedStories[t]
            /\ savedStories' = savedStories
            /\ localStorage' = localStorage]_vars

\* A generated two-page story A replaced the one-page story A of the
\* previous session, B was kept, and after a failed generation had cleared
\* the active story, A was loaded again, with a re-rolled text.
C12_Witness ==
    /\ DOMAIN savedStories = Titles
    /\ Len(savedStories["A"].pages) = MaxPages
    /\ savedStories["A"].pages[1].text = "t1"
    /\ savedStories["B"] = FreshStory("B", "p", MaxPages)
    /\ error = "err"
    /\ story = savedStories["A"]

----------------------------------------------------------------------------
(* Properties of the story endpoint (specification SpecApi) *)

\* C13: every request makes at most two upstream calls, the first in JSON
\* mode and a second, without it, only after the first failed with an error
\* that mentions response_format.  Any other failure of the first call and
\* any failure of the second call is answered by status 500 with no further
\* call, and a request without a prompt by status 400 with no call at all.
C13_AtMostOneRetry ==
    \A q \in Requests :
        LET calls == apiCalls[q]
            Settled(k) == k <= Len(calls) /\ calls[k].result # Pending
        IN
        /\ Len(calls) <= 2
        /\ Len(calls) >= 1 => calls[1].jsonMode
        /\ Len(calls) = 2 =>
              /\ ~calls[2].jsonMode
              /\ Settled(1)
              /\ Failed(calls[1].result)
              /\ calls[1].result.mentions
        /\ (Settled(1) /\ Failed(calls[1].result) /\ ~calls[1].result.mentions) =>
              /\ Len(calls) = 1
              /\ apiPc[q] = "idle"
              /\ apiResp[q].status = 500
        /\ (Settled(2) /\ Failed(calls[2].result)) =>
              /\ apiPc[q] = "idle"
              /\ apiResp[q].status = 500
        /\ (apiBody[q] # NoRequest /\ apiBody[q].kind # "malformed"
                /\ PromptMissing(apiBody[q])) =>
              /\ calls = << >>
              /\ apiPc[q] = "idle"
              /\ apiResp[q].status = 400

\* One request was retried without JSON mode and the retry failed, while
\* another request with a missing prompt was turned down.
C13_Witness ==
    \E q, w \in Requests :
        /\ Len(apiCalls[q]) = 2
        /\ apiCalls[q][2].result # Pending
        /\ Failed(apiCalls[q][2].result)
        /\ apiResp[q].status = 500
        /\ apiBody[w].kind = "noPrompt"
        /\ apiResp[w].status = 400

----------------------------------------------------------------------------
(* Properties of the busy flag (specification SpecBusyFair) *)

\* The operations that have set busy and not yet reached their finally.
InFlight ==
    {op \in {"generateStory", "reroll", "downloadPDF", "downloadVideo"} :
        \/ op = "generateStory" /\ gen.pc # "idle"
        \/ op = "reroll" /\ rr.pc # "idle"
        \/ op = "downloadPDF" /\ pdf.pc # "idle"
        \/ op = "downloadVideo" /\ vPc # "idle"}

\* C15: at most one of generateStory, rerollImage, rerollText, downloadPDF
\* and downloadVideo is in flight at any time, busy is true exactly while
\* one is in flight, and, when external calls return, busy is eventually
\* cleared again on every path.
C15_BusyWhileOneInFlight ==
    /\ [](Cardinality(InFlight) <= 1 /\ (busy <=> InFlight # {}))
    /\ (busy ~> ~busy)

\* A video export has failed and cleared busy, and now a PDF export is the
\* one operation in flight.
C15_Witness ==
    /\ vPc = "idle"
    /\ vResult = "failed"
    /\ busy
    /\ InFlight = {"downloadPDF"}

====
